---- MODULE Spec2Model ----
(***************************************************************************)
(* Model of static/js/likes.js: the submit handler processLike and the two *)
(* actions likeCafe and unlikeCafe.                                        *)
(*                                                                         *)
(* The script runs on the browser's single JavaScript thread.  A handler   *)
(* runs to completion up to its next await; `running` names the invocation *)
(* that holds the thread, and every statement of the source is one step of *)
(* that invocation.  While an invocation is suspended on an await the      *)
(* thread is free (running = {}): the network may complete a request and a *)
(* new submit event may be dispatched (Spec); in SpecPage other scripts of *)
(* the page may also change the form's cafe-id attribute.                  *)
(*                                                                         *)
(* The service behind the three endpoints is not part of the repository.   *)
(* Spec and SpecPage leave it open: any response, or none, may arrive and  *)
(* `server` is not used.  SpecServer couples the script to a service that  *)
(* keeps one like state and answers every request.                         *)
(*                                                                         *)
(* JavaScript values are written as the strings of their literals          *)
(* ("true", "undefined", "1", ...), a parsed JSON value as a record        *)
(* [t, props], and a JSON text as its sequence of tokens.                  *)
(***************************************************************************)
EXTENDS Integers, Sequences, FiniteSets, TLC

VARIABLES
    btnText,     \* text of #like-btn
    cafeAttr,    \* value of the cafe-id attribute of #like-form
    navigated,   \* TRUE once the browser performed the default form submission
    running,     \* the invocation holding the JavaScript thread: {i}, or {} when it is free
    inv,         \* the invocations of processLike, in order of their submit events
    server       \* the remote service behind /api/likes, /api/like and /api/unlike

vars == <<btnText, cafeAttr, navigated, running, inv, server>>

\* Number of submit events the model dispatches.
MaxInv == 2

\* Values the template may give the cafe-id attribute (always present: the
\* form must carry a resource identifier).
CafeIds == {"1", "2"}

\* The two labels the script writes, and those the template may render.
Labels == {"Like", "Liked"}

----------------------------------------------------------------------------
(* JavaScript values and JSON *)

\* ToBoolean, as applied by `if (liked)`.
Truthy(v) == v \notin {"false", "undefined", "null", "0", "\"\""}

\* A parsed JSON value: null, or an object given by its set of <<key, value>>.
JsNull == [t |-> "null", props |-> {}]

JsObject(props) == [t |-> "object", props |-> props]

\* obj.key for an object: the value under key, or undefined when there is none.
GetProp(obj, key) ==
    IF \E p \in obj.props : p[1] = key
        THEN (CHOOSE p \in obj.props : p[1] = key)[2]
        ELSE "undefined"

\* What response.json() of the state query may resolve with.
LikesBodies ==
    { JsNull, JsObject({}) }
        \cup { JsObject({<<"likes", v>>}) : v \in {"true", "false", "1"} }

\* JSON.stringify of a string value: the quoted string, one token.
Quote(s) == <<"\"", s, "\"">>

\* JSON.stringify({ cafe_id: cafeId }): a key whose value is undefined is left out.
JsonStringify(cafeId) ==
    IF cafeId = "undefined"
        THEN <<"{", "}">>
        ELSE <<"{">> \o Quote("cafe_id") \o <<":">> \o Quote(cafeId) \o <<"}">>

\* JSON.parse of a token sequence holding an object with at most one string member;
\* "SyntaxError" for anything else.
JsonParse(toks) ==
    IF toks = <<"{", "}">>
        THEN JsObject({})
    ELSE IF /\ Len(toks) = 9
            /\ toks[1] = "{" /\ toks[2] = "\"" /\ toks[4] = "\"" /\ toks[5] = ":"
            /\ toks[6] = "\"" /\ toks[8] = "\"" /\ toks[9] = "}"
        THEN JsObject({<<toks[3], toks[7]>>})
    ELSE [t |-> "SyntaxError", props |-> {}]

----------------------------------------------------------------------------
(* State *)

\* A fresh invocation, as the submit event is dispatched to processLike.
NewInvocation ==
    [ pc |-> "L10",
      defaultPrevented |-> FALSE,
      cafeId |-> "unset",
      likedData |-> [t |-> "unset", props |-> {}],
      liked |-> "unset",
      wrote |-> "none",
      sent |-> <<>>,
      attrAtSubmit |-> "unset",
      trace |-> <<>> ]

Ids == 1..Len(inv)

Idle == running = {} /\ ~navigated

\* Invocation i holds the thread and is at statement l.
At(i, l) == i \in Ids /\ running = {i} /\ inv[i].pc = l /\ ~navigated

\* Invocation i is suspended on the await named l and the thread is free.
Suspended(i, l) == i \in Ids /\ Idle /\ inv[i].pc = l

\* A request handed to fetch.
Request(method, path, query, body) ==
    [method |-> method, path |-> path, query |-> query, body |-> body]

\* The service as Spec and SpecPage see it: left open, its state never used.
NoServer == [liked |-> FALSE, queue |-> <<>>, replies |-> {}, atSubmit |-> {},
             overlapped |-> FALSE, reordered |-> FALSE]

Init ==
    /\ btnText \in Labels
    /\ cafeAttr \in CafeIds
    /\ navigated = FALSE
    /\ running = {}
    /\ inv = <<>>
    /\ server = NoServer


\* inv with invocation i replaced by record r.
Upd(i, r) == [inv EXCEPT ![i] = r]

\* Invocation i after executing event ev and moving to statement l.
Moved(i, l, ev) == [inv[i] EXCEPT !.pc = l, !.trace = Append(@, ev)]

\* Invocation i after handing request r to fetch and suspending on await l.
Fetched(i, l, ev, r) == [Moved(i, l, ev) EXCEPT !.sent = Append(@, r)]

\* An await of invocation i rejects or a statement throws: nothing in the script
\* catches it, so the invocation ends as an unhandled rejection.
Abort(i, ev) ==
    /\ inv' = Upd(i, Moved(i, "failed", ev))
    /\ running' = {}
    /\ UNCHANGED <<btnText, cafeAttr, navigated>>

----------------------------------------------------------------------------
(* The page around the script *)

\* Mutant of Submit: an in-flight guard, the submit is ignored while an earlier
\* invocation is suspended on a request.
SubmitGuarded ==
    /\ Idle
    /\ Len(inv) < MaxInv
    /\ \A i \in Ids : inv[i].pc \in {"done", "failed"}
    /\ inv' = Append(inv, [NewInvocation EXCEPT !.attrAtSubmit = cafeAttr])
    /\ running' = {Len(inv) + 1}
    /\ UNCHANGED <<btnText, cafeAttr, navigated>>

\* Mutant of Submit: an unhandled rejection of an earlier invocation leaves the
\* handler unusable.
SubmitDeadAfterFailure ==
    /\ Idle
    /\ Len(inv) < MaxInv
    /\ \A i \in Ids : inv[i].pc # "failed"
    /\ inv' = Append(inv, [NewInvocation EXCEPT !.attrAtSubmit = cafeAttr])
    /\ running' = {Len(inv) + 1}
    /\ UNCHANGED <<btnText, cafeAttr, navigated>>

\* Line 61: the form is submitted and the browser dispatches the event to
\* processLike.  Nothing in the script disables the form or the handler.
Submit ==
    /\ Idle
    /\ Len(inv) < MaxInv
    /\ inv' = Append(inv, [NewInvocation EXCEPT !.attrAtSubmit = cafeAttr])
    /\ running' = {Len(inv) + 1}
    /\ UNCHANGED <<btnText, cafeAttr, navigated>>

\* Another script of the page (or the user, through the inspector) changes the
\* form's cafe-id attribute while no handler holds the thread.
SetCafeAttr(v) ==
    /\ Idle
    /\ v # cafeAttr
    /\ cafeAttr' = v
    /\ UNCHANGED <<btnText, navigated, running, inv>>

----------------------------------------------------------------------------
(* processLike, lines 9-24 *)

\* Mutant of PreventDefault: the call is missing.
PreventDefaultMissing(i) ==
    /\ At(i, "L10")
    /\ inv' = Upd(i, [inv[i] EXCEPT !.pc = "L13"])
    /\ UNCHANGED <<btnText, cafeAttr, navigated, running>>

\* Line 10: evt.preventDefault().
PreventDefault(i) ==
    /\ At(i, "L10")
    /\ inv' = Upd(i, [Moved(i, "L13", "preventDefault") EXCEPT !.defaultPrevented = TRUE])
    /\ UNCHANGED <<btnText, cafeAttr, navigated, running>>

\* Line 13: const cafeId = $("#like-form").attr("cafe-id").
ReadCafeId(i) ==
    /\ At(i, "L13")
    /\ inv' = Upd(i, [Moved(i, "L15", "attr") EXCEPT !.cafeId = cafeAttr])
    /\ UNCHANGED <<btnText, cafeAttr, navigated, running>>

\* Line 15: fetch(`/api/likes?cafe_id=${cafeId}`) and the await of it.  The
\* handler returns to the dispatcher here, which performs the default action
\* (the navigation) unless the event's default was prevented.
FetchLikes(i) ==
    /\ At(i, "L15")
    /\ inv' = Upd(i, Fetched(i, "await15", "GET",
                               Request("GET", "/api/likes", inv[i].cafeId, <<>>)))
    /\ running' = {}
    /\ navigated' = ~inv[i].defaultPrevented
    /\ UNCHANGED <<btnText, cafeAttr>>

\* Line 15: the fetch resolves with a response; line 16 calls resp.json() and
\* awaits it.
LikesFetchResolves(i) ==
    /\ Suspended(i, "await15")
    /\ inv' = Upd(i, [inv[i] EXCEPT !.pc = "await16"])
    /\ UNCHANGED <<btnText, cafeAttr, navigated, running>>

\* Line 15: the fetch rejects (network error).
LikesFetchRejects(i) ==
    /\ Suspended(i, "await15")
    /\ Abort(i, "reject15")

\* Line 16: resp.json() resolves with the parsed body.
LikesJsonResolves(i, body) ==
    /\ Suspended(i, "await16")
    /\ inv' = Upd(i, [inv[i] EXCEPT !.pc = "L17", !.likedData = body])
    /\ running' = {i}
    /\ UNCHANGED <<btnText, cafeAttr, navigated>>

\* Mutant of LikesJsonRejects: the parse failure is swallowed and the cafe is
\* taken as not liked.
LikesJsonRejectsSwallowed(i) ==
    /\ Suspended(i, "await16")
    /\ inv' = Upd(i, Moved(i, "L28", "reject16"))
    /\ running' = {i}
    /\ UNCHANGED <<btnText, cafeAttr, navigated>>

\* Line 16: resp.json() rejects (the body is not JSON).
LikesJsonRejects(i) ==
    /\ Suspended(i, "await16")
    /\ Abort(i, "reject16")

\* Mutant of ReadLikes: a body without a boolean likes field is rejected.
ReadLikesStrict(i) ==
    /\ At(i, "L17")
    /\ IF GetProp(inv[i].likedData, "likes") \notin {"true", "false"}
          THEN Abort(i, "TypeError17")
          ELSE /\ inv' = Upd(i, [inv[i] EXCEPT !.pc = "L19",
                                               !.liked = GetProp(inv[i].likedData, "likes")])
               /\ UNCHANGED <<btnText, cafeAttr, navigated, running>>

\* Line 17: const liked = likedData.likes.  Reading a property of null throws
\* a TypeError; reading a missing property of an object gives undefined.
ReadLikes(i) ==
    /\ At(i, "L17")
    /\ IF inv[i].likedData.t = "null"
          THEN Abort(i, "TypeError17")
          ELSE /\ inv' = Upd(i, [inv[i] EXCEPT !.pc = "L19",
                                               !.liked = GetProp(inv[i].likedData, "likes")])
               /\ UNCHANGED <<btnText, cafeAttr, navigated, running>>

\* Mutant of Branch: the two branches are exchanged.
BranchInverted(i) ==
    /\ At(i, "L19")
    /\ inv' = Upd(i, [inv[i] EXCEPT !.pc = IF Truthy(inv[i].liked) THEN "L28" ELSE "L45"])
    /\ UNCHANGED <<btnText, cafeAttr, navigated, running>>

\* Mutant of Branch: the direction is taken from the label the button shows,
\* not from the response of the state query.
BranchOnLabel(i) ==
    /\ At(i, "L19")
    /\ inv' = Upd(i, [inv[i] EXCEPT !.pc = IF btnText = "Liked" THEN "L45" ELSE "L28"])
    /\ UNCHANGED <<btnText, cafeAttr, navigated, running>>

\* Lines 19-23: if (liked) unlikeCafe(cafeId) else likeCafe(cafeId).
Branch(i) ==
    /\ At(i, "L19")
    /\ inv' = Upd(i, [inv[i] EXCEPT !.pc = IF Truthy(inv[i].liked) THEN "L45" ELSE "L28"])
    /\ UNCHANGED <<btnText, cafeAttr, navigated, running>>

----------------------------------------------------------------------------
(* likeCafe, lines 27-41 *)

\* Mutant of LikeText: the label is not written before the request.
LikeTextSkipped(i) ==
    /\ At(i, "L28")
    /\ inv' = Upd(i, [inv[i] EXCEPT !.pc = "L30"])
    /\ UNCHANGED <<btnText, cafeAttr, navigated, running>>

\* Line 28: $("#like-btn").text("Liked").
LikeText(i) ==
    /\ At(i, "L28")
    /\ btnText' = "Liked"
    /\ inv' = Upd(i, [Moved(i, "L30", "text") EXCEPT !.wrote = "Liked"])
    /\ UNCHANGED <<cafeAttr, navigated, running>>

\* Mutant of LikeFetch: the request is sent twice.
LikeFetchTwice(i) ==
    /\ At(i, "L30")
    /\ inv' = Upd(i, [Moved(i, "await30", "POST") EXCEPT
                        !.sent = @ \o << Request("POST", "/api/like", "", JsonStringify(inv[i].cafeId)),
                                         Request("POST", "/api/like", "", JsonStringify(inv[i].cafeId)) >>])
    /\ running' = {}
    /\ UNCHANGED <<btnText, cafeAttr, navigated>>

\* Mutant of LikeFetch: the identifier is read from the form again when the
\* request is built, instead of the value read at line 13.
LikeFetchRereadsAttr(i) ==
    /\ At(i, "L30")
    /\ inv' = Upd(i, Fetched(i, "await30", "POST",
                               Request("POST", "/api/like", "", JsonStringify(cafeAttr))))
    /\ running' = {}
    /\ UNCHANGED <<btnText, cafeAttr, navigated>>

\* Lines 30-36: fetch('/api/like', {method: "POST", body: JSON.stringify(...)})
\* and the await of it.
LikeFetch(i) ==
    /\ At(i, "L30")
    /\ inv' = Upd(i, Fetched(i, "await30", "POST",
                               Request("POST", "/api/like", "", JsonStringify(inv[i].cafeId))))
    /\ running' = {}
    /\ UNCHANGED <<btnText, cafeAttr, navigated>>

\* Line 30: the fetch resolves; line 38 calls resp.json() and awaits it.
LikeFetchResolves(i) ==
    /\ Suspended(i, "await30")
    /\ inv' = Upd(i, [inv[i] EXCEPT !.pc = "await38"])
    /\ UNCHANGED <<btnText, cafeAttr, navigated, running>>

\* Mutant of LikeFetchRejects: the optimistic label is rolled back.
LikeFetchRejectsRollsBack(i) ==
    /\ Suspended(i, "await30")
    /\ inv' = Upd(i, Moved(i, "failed", "reject30"))
    /\ btnText' = "Like"
    /\ UNCHANGED <<cafeAttr, navigated, running>>

\* Line 30: the fetch rejects.
LikeFetchRejects(i) ==
    /\ Suspended(i, "await30")
    /\ Abort(i, "reject30")

\* Line 38: resp.json() resolves.
LikeJsonResolves(i) ==
    /\ Suspended(i, "await38")
    /\ inv' = Upd(i, [inv[i] EXCEPT !.pc = "L40"])
    /\ running' = {i}
    /\ UNCHANGED <<btnText, cafeAttr, navigated>>

\* Line 38: resp.json() rejects.
LikeJsonRejects(i) ==
    /\ Suspended(i, "await38")
    /\ Abort(i, "reject38")

\* Mutant of LikeLog: the label is set again once the response is in.
LikeLogSetsLabel(i) ==
    /\ At(i, "L40")
    /\ btnText' = "Like"
    /\ inv' = Upd(i, Moved(i, "done", "log"))
    /\ running' = {}
    /\ UNCHANGED <<cafeAttr, navigated>>

\* Line 40: console.log(data); likeCafe returns and processLike, which awaited
\* it at line 22, returns too.
LikeLog(i) ==
    /\ At(i, "L40")
    /\ inv' = Upd(i, Moved(i, "done", "log"))
    /\ running' = {}
    /\ UNCHANGED <<btnText, cafeAttr, navigated>>

----------------------------------------------------------------------------
(* unlikeCafe, lines 44-58 *)

\* Mutant of UnlikeText: the label is not written before the request.
UnlikeTextSkipped(i) ==
    /\ At(i, "L45")
    /\ inv' = Upd(i, [inv[i] EXCEPT !.pc = "L47"])
    /\ UNCHANGED <<btnText, cafeAttr, navigated, running>>

\* Line 45: $("#like-btn").text("Like").
UnlikeText(i) ==
    /\ At(i, "L45")
    /\ btnText' = "Like"
    /\ inv' = Upd(i, [Moved(i, "L47", "text") EXCEPT !.wrote = "Like"])
    /\ UNCHANGED <<cafeAttr, navigated, running>>

\* Lines 47-53: fetch('/api/unlike', {method: "POST", body: JSON.stringify(...)})
\* and the await of it.
UnlikeFetch(i) ==
    /\ At(i, "L47")
    /\ inv' = Upd(i, Fetched(i, "await47", "POST",
                               Request("POST", "/api/unlike", "", JsonStringify(inv[i].cafeId))))
    /\ running' = {}
    /\ UNCHANGED <<btnText, cafeAttr, navigated>>

\* Line 47: the fetch resolves; line 55 calls resp.json() and awaits it.
UnlikeFetchResolves(i) ==
    /\ Suspended(i, "await47")
    /\ inv' = Upd(i, [inv[i] EXCEPT !.pc = "await55"])
    /\ UNCHANGED <<btnText, cafeAttr, navigated, running>>

\* Line 47: the fetch rejects.
UnlikeFetchRejects(i) ==
    /\ Suspended(i, "await47")
    /\ Abort(i, "reject47")

\* Line 55: resp.json() resolves.
UnlikeJsonResolves(i) ==
    /\ Suspended(i, "await55")
    /\ inv' = Upd(i, [inv[i] EXCEPT !.pc = "L57"])
    /\ running' = {i}
    /\ UNCHANGED <<btnText, cafeAttr, navigated>>

\* Line 55: resp.json() rejects.
UnlikeJsonRejects(i) ==
    /\ Suspended(i, "await55")
    /\ Abort(i, "reject55")

\* Line 57: console.log(data); unlikeCafe returns and processLike, which
\* awaited it at line 20, returns too.
UnlikeLog(i) ==
    /\ At(i, "L57")
    /\ inv' = Upd(i, Moved(i, "done", "log"))
    /\ running' = {}
    /\ UNCHANGED <<btnText, cafeAttr, navigated>>

----------------------------------------------------------------------------

\* The script and the network: the submit events, the statements of the three
\* functions and the outcomes of their awaits.
Next ==
    \/ Submit /\ UNCHANGED server
    \/ \E i \in Ids : PreventDefault(i) /\ UNCHANGED server
    \/ \E i \in Ids : ReadCafeId(i) /\ UNCHANGED server
    \/ \E i \in Ids : FetchLikes(i) /\ UNCHANGED server
    \/ \E i \in Ids : LikesFetchResolves(i) /\ UNCHANGED server
    \/ \E i \in Ids : LikesFetchRejects(i) /\ UNCHANGED server
    \/ \E i \in Ids : \E body \in LikesBodies : LikesJsonResolves(i, body) /\ UNCHANGED server
    \/ \E i \in Ids : LikesJsonRejects(i) /\ UNCHANGED server
    \/ \E i \in Ids : ReadLikes(i) /\ UNCHANGED server
    \/ \E i \in Ids : Branch(i) /\ UNCHANGED server
    \/ \E i \in Ids : LikeText(i) /\ UNCHANGED server
    \/ \E i \in Ids : LikeFetch(i) /\ UNCHANGED server
    \/ \E i \in Ids : LikeFetchResolves(i) /\ UNCHANGED server
    \/ \E i \in Ids : LikeFetchRejects(i) /\ UNCHANGED server
    \/ \E i \in Ids : LikeJsonResolves(i) /\ UNCHANGED server
    \/ \E i \in Ids : LikeJsonRejects(i) /\ UNCHANGED server
    \/ \E i \in Ids : LikeLog(i) /\ UNCHANGED server
    \/ \E i \in Ids : UnlikeText(i) /\ UNCHANGED server
    \/ \E i \in Ids : UnlikeFetch(i) /\ UNCHANGED server
    \/ \E i \in Ids : UnlikeFetchResolves(i) /\ UNCHANGED server
    \/ \E i \in Ids : UnlikeFetchRejects(i) /\ UNCHANGED server
    \/ \E i \in Ids : UnlikeJsonResolves(i) /\ UNCHANGED server
    \/ \E i \in Ids : UnlikeJsonRejects(i) /\ UNCHANGED server
    \/ \E i \in Ids : UnlikeLog(i) /\ UNCHANGED server

Spec == Init /\ [][Next]_vars

\* The script in a page whose other scripts change the form's cafe-id attribute.
NextPage ==
    \/ Next
    \/ \E v \in CafeIds : SetCafeAttr(v) /\ UNCHANGED server

SpecPage == Init /\ [][NextPage]_vars

----------------------------------------------------------------------------
(* The script against a service that keeps the like state *)

\* The service keeps one like state for the user and the cafe of the page:
\* /api/likes answers it, /api/like sets it, /api/unlike clears it.  It answers
\* every request, and it may handle the requests it has received in any order.
\*   liked      the like state
\*   queue      the requests sent and not yet handled, in sending order
\*   replies    the responses on their way back, as <<invocation, value>>
\*   atSubmit   history: the like state when each invocation was submitted
\*   overlapped history: a submit was dispatched while an invocation was unfinished
\*   reordered  history: a request was handled before one sent earlier

\* Number of submit events dispatched against the service.
MaxInvServer == 3

\* The cafe of the page: the one whose like state the service keeps here.
ServedCafe == "1"

InitServer ==
    /\ btnText \in Labels
    /\ cafeAttr = ServedCafe
    /\ navigated = FALSE
    /\ running = {}
    /\ inv = <<>>
    /\ server \in {[NoServer EXCEPT !.liked = b] : b \in BOOLEAN}

\* Line 61, as Submit, with the history of the service kept.
ServerSubmit ==
    /\ Idle
    /\ Len(inv) < MaxInvServer
    /\ inv' = Append(inv, [NewInvocation EXCEPT !.attrAtSubmit = cafeAttr])
    /\ running' = {Len(inv) + 1}
    /\ server' = [server EXCEPT
                    !.atSubmit = @ \cup {<<Len(inv) + 1, server.liked>>},
                    !.overlapped = @ \/ \E i \in Ids : inv[i].pc # "done"]
    /\ UNCHANGED <<btnText, cafeAttr, navigated>>

\* The request invocation i has just handed to fetch reaches the service.
Sent(i) ==
    server' = [server EXCEPT
                 !.queue = Append(@, [inv |-> i,
                                      path |-> inv'[i].sent[Len(inv'[i].sent)].path])]

\* The sequence q without its k-th element.
Without(q, k) == SubSeq(q, 1, k - 1) \o SubSeq(q, k + 1, Len(q))

\* The service handles the k-th request waiting and sends its response.
ServerHandle(k) ==
    /\ k \in DOMAIN server.queue
    /\ LET r == server.queue[k] IN
         server' = [server EXCEPT
                      !.liked = IF r.path = "/api/like" THEN TRUE
                                ELSE IF r.path = "/api/unlike" THEN FALSE
                                ELSE @,
                      !.queue = Without(@, k),
                      !.replies = @ \cup {<<r.inv, IF r.path # "/api/likes" THEN "ok"
                                                   ELSE IF server.liked THEN "true"
                                                   ELSE "false">>},
                      !.reordered = @ \/ k > 1]
    /\ UNCHANGED <<btnText, cafeAttr, navigated, running, inv>>

\* The response to the request of invocation i has arrived.
HasReply(i) == \E p \in server.replies : p[1] = i

Reply(i) == (CHOOSE p \in server.replies : p[1] = i)[2]

\* The body of the response to invocation i is read.
Taken(i) ==
    /\ HasReply(i)
    /\ server' = [server EXCEPT !.replies = @ \ {<<i, Reply(i)>>}]

\* The body /api/likes answers with for like state v.
LikesBody(v) == JsObject({<<"likes", v>>})

\* The script, the service, and a network that delivers every request and every
\* response: each await resolves, with what the service answered.
NextServer ==
    \/ ServerSubmit
    \/ \E k \in DOMAIN server.queue : ServerHandle(k)
    \/ \E i \in Ids : PreventDefault(i) /\ UNCHANGED server
    \/ \E i \in Ids : ReadCafeId(i) /\ UNCHANGED server
    \/ \E i \in Ids : FetchLikes(i) /\ Sent(i)
    \/ \E i \in Ids : LikesFetchResolves(i) /\ HasReply(i) /\ UNCHANGED server
    \/ \E i \in Ids : HasReply(i) /\ LikesJsonResolves(i, LikesBody(Reply(i))) /\ Taken(i)
    \/ \E i \in Ids : ReadLikes(i) /\ UNCHANGED server
    \/ \E i \in Ids : Branch(i) /\ UNCHANGED server
    \/ \E i \in Ids : LikeText(i) /\ UNCHANGED server
    \/ \E i \in Ids : LikeFetch(i) /\ Sent(i)
    \/ \E i \in Ids : LikeFetchResolves(i) /\ HasReply(i) /\ UNCHANGED server
    \/ \E i \in Ids : LikeJsonResolves(i) /\ Taken(i)
    \/ \E i \in Ids : LikeLog(i) /\ UNCHANGED server
    \/ \E i \in Ids : UnlikeText(i) /\ UNCHANGED server
    \/ \E i \in Ids : UnlikeFetch(i) /\ Sent(i)
    \/ \E i \in Ids : UnlikeFetchResolves(i) /\ HasReply(i) /\ UNCHANGED server
    \/ \E i \in Ids : UnlikeJsonResolves(i) /\ Taken(i)
    \/ \E i \in Ids : UnlikeLog(i) /\ UNCHANGED server

SpecServer == InitServer /\ [][NextServer]_vars

----------------------------------------------------------------------------
(* Observations on invocations, used by the properties below *)

\* Number of requests invocation i handed to fetch for `path`.
NSent(i, path) == Cardinality({k \in DOMAIN inv[i].sent : inv[i].sent[k].path = path})

\* Number of mutation requests (POST) of invocation i.
NPost(i) == Cardinality({k \in DOMAIN inv[i].sent : inv[i].sent[k].method = "POST"})

\* Number of times invocation i executed event ev.
NEv(i, ev) == Cardinality({k \in DOMAIN inv[i].trace : inv[i].trace[k] = ev})

\* Position of the first execution of ev by invocation i (0 when there is none).
PosEv(i, ev) ==
    IF NEv(i, ev) = 0 THEN 0
    ELSE CHOOSE k \in DOMAIN inv[i].trace :
            /\ inv[i].trace[k] = ev
            /\ \A m \in 1..(k - 1) : inv[i].trace[m] # ev

LastEv(i) == IF inv[i].trace = <<>> THEN "none" ELSE inv[i].trace[Len(inv[i].trace)]

\* The state query of invocation i failed: its fetch or its resp.json() rejected.
QueryFailed(i) == NEv(i, "reject15") + NEv(i, "reject16") > 0

\* The mutation request of invocation i failed.
LikeFailed(i) == NEv(i, "reject30") + NEv(i, "reject38") > 0

UnlikeFailed(i) == NEv(i, "reject47") + NEv(i, "reject55") > 0

\* Invocation i is past the fetch of likeCafe / of unlikeCafe.
PastLikeFetch(i) == inv[i].pc \in {"await30", "await38", "L40"} \/ LikeFailed(i)

PastUnlikeFetch(i) == inv[i].pc \in {"await47", "await55", "L57"} \/ UnlikeFailed(i)

\* Invocation i ran to the end of processLike.
Done(i) == inv[i].pc = "done"

\* The state query of invocation i returned the body `body`.
QueryReturned(i, body) == inv[i].likedData = body

LikesTrue == JsObject({<<"likes", "true">>})

LikesFalse == JsObject({<<"likes", "false">>})

\* The body of a mutation request carrying resource identifier id.
CarriesId(r, id) == JsonParse(r.body) = JsObject({<<"cafe_id", id>>})

----------------------------------------------------------------------------
(* C1 *)

\* C1: an invocation whose state query returned {likes: true} sends exactly one
\* request to /api/unlike, carrying the identifier it read, sends none to
\* /api/like, and sets the button text to "Like".
C1_UnlikeOnce ==
    \A i \in Ids : QueryReturned(i, LikesTrue) =>
        /\ NSent(i, "/api/like") = 0
        /\ NSent(i, "/api/unlike") = IF PastUnlikeFetch(i) \/ Done(i) THEN 1 ELSE 0
        /\ \A k \in DOMAIN inv[i].sent :
              inv[i].sent[k].path = "/api/unlike" => CarriesId(inv[i].sent[k], inv[i].cafeId)
        /\ inv[i].pc = "L47" => btnText = "Like"
        /\ (PastUnlikeFetch(i) \/ Done(i)) => inv[i].wrote = "Like" /\ NEv(i, "text") = 1

C1_Witness ==
    \E i \in Ids : QueryReturned(i, LikesTrue) /\ Done(i) /\ NSent(i, "/api/unlike") = 1

(* C2 *)

C3_QueryFailureStops ==
    \A i \in Ids : QueryFailed(i) =>
        /\ inv[i].pc = "failed"
        /\ NPost(i) = 0
        /\ inv[i].sent = <<Request("GET", "/api/likes", inv[i].cafeId, <<>>)>>
        /\ inv[i].wrote = "none"
        /\ NEv(i, "text") = 0

C3_Witness ==
    \E i, j \in Ids :
        /\ LastEv(i) = "reject15" /\ LastEv(j) = "reject16"
        /\ inv[i].pc = "failed" /\ inv[j].pc = "failed"

(* C4 *)

\* The likes field of the body the state query of invocation i returned.
LikesField(i) == GetProp(inv[i].likedData, "likes")

\* The state query of invocation i returned a body that parsed as JSON.
BodyParsed(i) == inv[i].likedData.t \in {"null", "object"}

\* Invocation i has finished acting on the body it read (nothing is left to run
\* before its next await).
Settled(i) == inv[i].pc \notin {"L17", "L19", "L28", "L30", "L45", "L47"}

\* C4 as stated: a body that parses as JSON but has no boolean likes field makes
\* the invocation abort, with no mutation request and no label change.
C4_Original ==
    \A i \in Ids : (BodyParsed(i) /\ LikesField(i) \notin {"true", "false"}) =>
        /\ NPost(i) = 0
        /\ inv[i].wrote = "none"

\* C4, amended: only a body that parses to null makes the invocation abort (no
\* mutation request, no label change).  A body that is an object without a
\* boolean likes field does not: the invocation branches on the truthiness of
\* the value, and takes the like path when the field is missing.
C4_Amended ==
    \A i \in Ids : (BodyParsed(i) /\ LikesField(i) \notin {"true", "false"} /\ Settled(i)) =>
        IF inv[i].likedData.t = "null"
            THEN /\ inv[i].pc = "failed" /\ LastEv(i) = "TypeError17"
                 /\ NPost(i) = 0 /\ inv[i].wrote = "none"
        ELSE IF Truthy(LikesField(i))
            THEN /\ NSent(i, "/api/unlike") = 1 /\ NSent(i, "/api/like") = 0
                 /\ inv[i].wrote = "Like"
        ELSE /\ NSent(i, "/api/like") = 1 /\ NSent(i, "/api/unlike") = 0
             /\ inv[i].wrote = "Liked"

C4_Witness ==
    \E i, j \in Ids :
        /\ QueryReturned(i, JsObject({})) /\ Done(i) /\ NSent(i, "/api/like") = 1
        /\ QueryReturned(j, JsNull) /\ inv[j].pc = "failed"

(* C5 *)

\* C5: in likeCafe and in unlikeCafe the label is written before the mutation
\* request is handed to fetch: when the invocation is about to send, the button
\* already shows the new value and nothing was sent yet; and while the response
\* is outstanding the write has happened, before the POST.
C5_LabelBeforeRequest ==
    \A i \in Ids :
        /\ inv[i].pc = "L30" => btnText = "Liked" /\ NPost(i) = 0
        /\ inv[i].pc = "L47" => btnText = "Like" /\ NPost(i) = 0
        /\ NPost(i) > 0 => 0 < PosEv(i, "text") /\ PosEv(i, "text") < PosEv(i, "POST")
        /\ inv[i].pc \in {"await30", "await38"} => inv[i].wrote = "Liked"
        /\ inv[i].pc \in {"await47", "await55"} => inv[i].wrote = "Like"

C5_Witness ==
    \E i, j \in Ids :
        /\ inv[i].pc = "await47" /\ inv[i].wrote = "Like"
        /\ inv[j].pc = "await30" /\ inv[j].wrote = "Liked" /\ btnText = "Liked"

(* C6 *)

MutationAwaits == {"await30", "await38", "await47", "await55"}

\* C6: the step in which the mutation request of an invocation fails leaves the
\* button text as it is and sends nothing, and the failed invocation takes no
\* further step: no rollback, no retry.
C6_NoRollbackNoRetry ==
    [][\A i \in Ids :
          /\ (inv[i].pc \in MutationAwaits /\ inv'[i].pc = "failed") =>
                /\ btnText' = btnText
                /\ inv'[i].sent = inv[i].sent
                /\ inv'[i].wrote = inv[i].wrote
                /\ inv[i].wrote = IF inv[i].pc \in {"await30", "await38"} THEN "Liked" ELSE "Like"
                /\ NPost(i) = 1
          /\ inv[i].pc = "failed" => inv'[i] = inv[i]]_vars

C6_Witness ==
    \E i, j \in Ids :
        /\ inv[i].pc = "failed" /\ LastEv(i) = "reject30" /\ inv[i].wrote = "Liked"
        /\ inv[j].pc = "failed" /\ LastEv(j) = "reject55" /\ inv[j].wrote = "Like"
        /\ i < j /\ btnText = "Like"

(* C7 *)

\* C7: every mutation request's body parses to {cafe_id: v}, and every state
\* query carries v, where v is the value the cafe-id attribute had when the
\* invocation's submit was handled, whatever the attribute is now.
C7_BodyCarriesIdAtSubmit ==
    \A i \in Ids : \A k \in DOMAIN inv[i].sent :
        LET r == inv[i].sent[k] IN
            /\ r.method = "POST" => CarriesId(r, inv[i].attrAtSubmit)
            /\ r.method = "GET" => r.query = inv[i].attrAtSubmit /\ r.query \in CafeIds

C7_Witness ==
    \E i, j \in Ids :
        /\ i < j
        /\ inv[i].pc \in {"await30", "await47"}
        /\ inv[j].pc \in {"await15", "await16"}
        /\ inv[j].cafeId # inv[i].cafeId
        /\ cafeAttr # inv[i].attrAtSubmit
        /\ CarriesId(inv[i].sent[2], inv[i].attrAtSubmit)

(* C8 *)

\* C8: the default navigation never happens, and preventDefault is the first
\* thing every invocation does: before it the invocation has read and sent
\* nothing, and after it the event's default is prevented whatever follows.
C8_DefaultPrevented ==
    /\ ~navigated
    /\ \A i \in Ids :
          IF inv[i].pc = "L10"
              THEN inv[i].trace = <<>> /\ inv[i].sent = <<>> /\ inv[i].cafeId = "unset"
              ELSE inv[i].defaultPrevented /\ inv[i].trace[1] = "preventDefault"

C8_Witness ==
    \E i, j \in Ids :
        /\ inv[i].pc = "failed" /\ inv[i].defaultPrevented
        /\ inv[j].pc = "done" /\ inv[j].defaultPrevented
        /\ ~navigated

(* C9 *)

\* Invocation i is suspended on a request.
InFlight(i) == inv[i].pc \in {"await15", "await16"} \cup MutationAwaits

\* Invocation i read a likes value that is not truthy.
ReadNotLiked(i) == inv[i].liked # "unset" /\ ~Truthy(inv[i].liked)

\* C9: there is no in-flight guard.  While an invocation is suspended on a
\* request a further submit is dispatched to the handler, and of any two
\* invocations that read "not liked", each sends its own /api/like request,
\* whatever the other has sent.
C9_NoInFlightGuard ==
    /\ (Idle /\ Len(inv) < MaxInv /\ \E i \in Ids : InFlight(i)) => ENABLED Submit
    /\ \A i, j \in Ids :
          (i # j /\ ReadNotLiked(i) /\ ReadNotLiked(j)
                 /\ (PastLikeFetch(i) \/ Done(i)) /\ (PastLikeFetch(j) \/ Done(j))) =>
              NSent(i, "/api/like") = 1 /\ NSent(j, "/api/like") = 1

\* Two overlapping invocations for the same cafe both got {likes: false}, both
\* have their /api/like request outstanding, and no /api/unlike was sent at all.
C9_Witness ==
    \E i, j \in Ids :
        /\ i # j
        /\ QueryReturned(i, LikesFalse) /\ QueryReturned(j, LikesFalse)
        /\ inv[i].cafeId = inv[j].cafeId
        /\ inv[i].pc = "await30" /\ inv[j].pc = "await30"
        /\ NSent(i, "/api/like") = 1 /\ NSent(j, "/api/like") = 1
        /\ \A k \in Ids : NSent(k, "/api/unlike") = 0

(* C10 *)

\* The step that resumes invocation i when the request it awaits completes.
Resume(i) ==
    \/ LikesFetchResolves(i)
    \/ \E body \in LikesBodies : LikesJsonResolves(i, body)
    \/ LikeFetchResolves(i)
    \/ LikeJsonResolves(i)
    \/ UnlikeFetchResolves(i)
    \/ UnlikeJsonResolves(i)

\* C10: whenever the thread is free a new submit is accepted (up to the number
\* of submits the model dispatches), whatever state earlier invocations are in;
\* a suspended invocation can resume whatever the others do; and the only states
\* without a next step are those in which the model has dispatched all its
\* submits.
C10_AlwaysAccepts ==
    /\ (Idle /\ Len(inv) < MaxInv) => ENABLED Submit
    /\ \A i \in Ids : (Idle /\ InFlight(i)) => ENABLED Resume(i)
    /\ (~ENABLED Next) => Len(inv) = MaxInv

\* An earlier invocation hangs on its state query or has failed, and a later
\* invocation has run its query, label update and mutation to completion.
C10_Witness ==
    \E i, j \in Ids :
        /\ i < j
        /\ inv[i].pc \in {"await15", "failed"}
        /\ Done(j) /\ NPost(j) = 1 /\ inv[j].wrote = btnText

(* C11 *)

\* The label an invocation writes for the body its state query returned.
LabelFor(body) == IF Truthy(GetProp(body, "likes")) THEN "Like" ELSE "Liked"

\* Invocation i has entered unlikeCafe / likeCafe.
TookUnlike(i) ==
    inv[i].pc \in {"L45", "L47"} \/ PastUnlikeFetch(i) \/ NSent(i, "/api/unlike") > 0

TookLike(i) ==
    inv[i].pc \in {"L28", "L30"} \/ PastLikeFetch(i) \/ NSent(i, "/api/like") > 0

\* C11: every invocation sends its own state query first, and the direction it
\* takes is the one its own response gives (unlike for a truthy likes, like
\* otherwise), whatever the button shows and whatever earlier invocations did;
\* it writes the label at most once and sends at most one mutation request.
C11_OwnQueryDecides ==
    \A i \in Ids :
        /\ NSent(i, "/api/likes") = IF inv[i].pc \in {"L10", "L13", "L15"} THEN 0 ELSE 1
        /\ (TookLike(i) \/ TookUnlike(i)) =>
              /\ inv[i].sent[1] = Request("GET", "/api/likes", inv[i].cafeId, <<>>)
              /\ inv[i].likedData.t = "object"
              /\ TookUnlike(i) <=> Truthy(GetProp(inv[i].likedData, "likes"))
              /\ TookLike(i) <=> ~Truthy(GetProp(inv[i].likedData, "likes"))
        /\ inv[i].wrote # "none" => inv[i].wrote = LabelFor(inv[i].likedData)
        /\ NEv(i, "text") <= 1
        /\ NPost(i) <= 1

\* A later invocation is in likeCafe, about to write "Liked", although the
\* button already shows "Liked" from an earlier invocation that has finished.
C11_Witness ==
    \E i, j \in Ids :
        /\ i < j
        /\ Done(i) /\ inv[i].wrote = "Liked"
        /\ inv[j].pc = "L28" /\ QueryReturned(j, LikesFalse)
        /\ btnText = "Liked"

(* C12 *)

IsPrefix(a, b) == Len(a) <= Len(b) /\ \A k \in DOMAIN a : a[k] = b[k]

\* The events of a rejected await or a thrown error.
FailureEvents ==
    {"reject15", "reject16", "TypeError17", "reject30", "reject38", "reject47", "reject55"}

\* The statements invocation i has executed, in order, without the failure that
\* ended it (if one did).
Steps(i) ==
    IF LastEv(i) \in FailureEvents
        THEN SubSeq(inv[i].trace, 1, Len(inv[i].trace) - 1)
        ELSE inv[i].trace

\* The order the data flow is stated in: ... GET, branch, POST, text, log.
StatedOrder == <<"preventDefault", "attr", "GET", "POST", "text", "log">>

\* The order of the statements in the source: ... GET, branch, text, POST, log.
SourceOrder == <<"preventDefault", "attr", "GET", "text", "POST", "log">>

\* C12 as stated: within one invocation the events occur in the order submit,
\* read of the identifier, GET, branch, POST, DOM text update, log: the POST
\* precedes the text update.
C12_Original ==
    \A i \in Ids : IsPrefix(Steps(i), StatedOrder)

\* C12, amended: within one invocation the events occur in the order submit,
\* read of the identifier, GET, branch, DOM text update, POST, log: the text
\* update precedes the POST.  The branch is taken after the GET and before the
\* text update.
C12_Amended ==
    \A i \in Ids :
        /\ IsPrefix(Steps(i), SourceOrder)
        /\ inv[i].pc \in {"L19", "L28", "L45"} => Steps(i) = SubSeq(SourceOrder, 1, 3)
        /\ Done(i) => Steps(i) = SourceOrder

C12_Witness ==
    \E i, j \in Ids :
        /\ Done(i) /\ TookLike(i) /\ inv[i].trace = SourceOrder
        /\ Done(j) /\ TookUnlike(j) /\ inv[j].trace = SourceOrder

(* C13 *)

\* Invocation i holds the thread in the block that follows the parse of its
\* state-query response (lines 17-23 and the label write and fetch they call).
InQueryBlock(i) == running = {i} /\ ~Settled(i)

\* No invocation is in such a block: the thread is free, or runs the handler's
\* first block or a log statement.
OutsideQueryBlocks == \A i \in Ids : ~InQueryBlock(i)

\* C13 as stated: whenever the thread is free the label is the initial one or
\* the one the most recently parsed state-query response gives ("Like" for a
\* truthy likes, "Liked" otherwise).  As steps: the block that follows a parse
\* frees the thread with the label that response gives, and no other step
\* (a mutation response, a failure, a log) changes the label.
C13_Original ==
    [][/\ \A i \in Ids : (InQueryBlock(i) /\ running' = {}) =>
              btnText' = LabelFor(inv[i].likedData)
       /\ OutsideQueryBlocks => btnText' = btnText]_vars

\* C13, amended: the same for the most recently parsed response that is not
\* null; a response that parses to null leaves the label as it was.
C13_Amended ==
    [][/\ \A i \in Ids : (InQueryBlock(i) /\ running' = {}) =>
              btnText' = IF inv[i].likedData.t = "null"
                            THEN btnText
                            ELSE LabelFor(inv[i].likedData)
       /\ OutsideQueryBlocks => btnText' = btnText]_vars

\* An invocation read a truthy likes, wrote "Like" and finished; a later one
\* got null and failed; the label is still "Like".
C13_Witness ==
    \E i, j \in Ids :
        /\ i < j
        /\ QueryReturned(i, JsObject({<<"likes", "1">>})) /\ Done(i) /\ inv[i].wrote = "Like"
        /\ QueryReturned(j, JsNull) /\ inv[j].pc = "failed"
        /\ btnText = "Like"

(* C14 *)

\* The label shows "Liked" exactly when the service's like state is liked.
LabelAgrees == (btnText = "Liked") <=> server.liked

\* The like state of the service when invocation i was submitted.
LikedAtSubmit(i) == (CHOOSE p \in server.atSubmit : p[1] = i)[2]

\* C14: as long as no submit was dispatched while an invocation was unfinished,
\* and with every request answered, the invocation that has just finished has
\* flipped the service's like state and the label agrees with the service.
C14_SequentialFlips ==
    (Len(inv) >= 1 /\ Done(Len(inv)) /\ ~server.overlapped) =>
        /\ server.liked = ~LikedAtSubmit(Len(inv))
        /\ LabelAgrees

\* Three invocations, one after the other, have finished.
C14_Witness ==
    /\ Len(inv) = 3
    /\ \A i \in Ids : Done(i)
    /\ ~server.overlapped
    /\ server.liked = ~LikedAtSubmit(3)

(* C15 *)

\* Nothing is outstanding: every invocation has finished, and no request or
\* response is on its way.
Quiescent ==
    /\ running = {}
    /\ Len(inv) >= 1
    /\ \A i \in Ids : Done(i)
    /\ server.queue = <<>>
    /\ server.replies = {}

\* C15: in a quiescent state the label agrees with the service if there were
\* only two invocations, or if the service handled the requests in sending
\* order; with three overlapping invocations and requests handled out of order
\* a quiescent state in which they disagree is reachable (C15_Witness).
C15_AgreeUnlessReordered ==
    (Quiescent /\ (Len(inv) <= 2 \/ ~server.reordered)) => LabelAgrees

C15_Witness ==
    /\ Quiescent
    /\ Len(inv) = 3
    /\ server.overlapped /\ server.reordered
    /\ ~LabelAgrees

====
